---- MODULE Spec2Model ----
(***************************************************************************)
(* Model of SAP/admission-webhook-runtime, package admission:              *)
(*   - the composite webhooks MultiValidatingWebhook / MultiMutatingWebhook *)
(*     (second half of pkg/admission/webhook.go),                           *)
(*   - the handler adapters NewValidatingWebhookHandler /                   *)
(*     NewMutatingWebhookHandler and handleAdmission,                       *)
(*   - the Register* functions, the routing table and Serve,                *)
(*   - the context handed to the handler methods (pkg/admission/context.go).*)
(*                                                                         *)
(* An object is abstracted to its kind and one field f that the mutating   *)
(* sub-handlers read and write.  A sub-handler is given by its behaviour   *)
(* (a kind out of VKinds / MKinds); its error, if any, names its position  *)
(* in the list so that errors of different sub-handlers are distinct.      *)
(***************************************************************************)
EXTENDS Integers, Sequences, FiniteSets, TLC

VARIABLES
    adapter,    \* "validating" | "mutating": which adapter/composite is configured
    multi,      \* TRUE: w is a Multi*Webhook over webhooks; FALSE: w is webhooks[1]
    webhooks,   \* the sub-handlers (behaviours), in registration order
    pc,         \* position of the request's task
    caller,     \* "direct": method of the composite called by user code; "adapter": by admitFunc
    req,        \* the HTTP request being handled (NoReq when none)
    op,         \* operation / method: "CREATE" | "UPDATE" | "DELETE"
    obj,        \* the (new) object, mutated in place by mutating handlers
    inObj,      \* history: the (new) object as it was handed to the handler method
    oldObj,     \* the old object
    savedObj,   \* MultiMutatingWebhook: snapshot taken at the start of the pass
    i,          \* MultiMutatingWebhook: pass index (loop variable i)
    j,          \* index of the next sub-handler of the range loop (1-based)
    count,      \* MultiMutatingWebhook: change counter of the pass
    err,        \* error returned by the handler method (NoErr: nil)
    passes,     \* history: number of passes started (snapshots taken) in this call
    passCalls,  \* history: indices of the sub-handlers invoked in the current pass / call
    calls,      \* history: number of sub-handler invocations in this call
    args,       \* history: the arguments (old, new) of every sub-handler invocation were those of the call
    decoded,    \* history: what has been decoded for this request
    resp,       \* the AdmissionResponse returned by admitFunc (NoResp when none)
    http,       \* the HTTP reply written to the caller (NoReply when none)
    router,     \* the Router implementation the Register* calls are given
    routes,     \* the router's table: the router.Handle calls that took effect, in order
    registered, \* number of Register* calls made so far
    regErr,     \* result of the last Register* call ("": nil)
    regArgs,    \* history: kind, type parameter and scheme of the last Register* call
    serve,      \* position of Serve
    options,    \* the ServeOptions of the Serve call at hand
    ctxDone,    \* ctx of Serve has been cancelled
    ctxCh,      \* Serve's local ctxCh: "set" | "nil"
    listener,   \* position of the goroutine that runs server.ListenAndServeTLS
    listenErr,  \* the value that goroutine sends on errCh ("": none yet)
    conns,      \* number of open connections with a request in flight
    elapsed,    \* time units since server.Shutdown was called
    serveErr,   \* result of the last Serve call ("none": has not returned; "nil")
    others      \* the tasks of the other requests in flight: their local variables

\* the variables of the server: routing table and lifecycle
srv == << router, routes, registered, regErr, regArgs, serve, options, ctxDone, ctxCh,
          listener, listenErr, conns, elapsed, serveErr >>

\* the variables of one request's task
task == << pc, caller, req, op, obj, inObj, oldObj, savedObj,
           i, j, count, err, passes, passCalls, calls, args, decoded, resp, http >>

vars == << adapter, multi, webhooks, pc, caller, req, op, obj, inObj, oldObj, savedObj,
           i, j, count, err, passes, passCalls, calls, args, decoded, resp, http,
           router, routes, registered, regErr, regArgs, serve, options, ctxDone, ctxCh,
           listener, listenErr, conns, elapsed, serveErr, others >>

----------------------------------------------------------------------------
(* Bounds of the model *)

MaxHandlers == 3        \* longest composite explored through direct calls
MaxAdmHandlers == 2     \* longest composite explored behind an adapter
MaxVal == 2             \* field f ranges over 0..MaxVal
MaxUid == 2             \* request uids 1..MaxUid

(* Program constants *)

PassFactor == 100               \* webhook.go:559  i > 100*len(w.webhooks)
StatusOK == 200                 \* implicit status of w.Write
StatusBadRequest == 400
StatusForbidden == 403
StatusUnsupportedMediaType == 415
StatusInternalServerError == 500

----------------------------------------------------------------------------
(* Values *)

Values == 0..MaxVal
NaN == 0 - 1                    \* a field value json.Marshal rejects

Ops == {"CREATE", "UPDATE", "DELETE"}

TargetKind == "target"          \* the kind T of the adapter
OtherKind == "other"            \* a kind the decoder knows that is not T

NilObj == [kind |-> "nil", f |-> 0]          \* zero value of T (nil pointer / nil interface)
Objects == [kind : {TargetKind}, f : Values] \* non-nil objects of type T
OldObjects == { o \in Objects : o.f <= 1 }  \* old objects handed to direct calls

NoErr == [text |-> "", src |-> 0]
HandlerErr(k) == [text |-> "rejected by handler", src |-> k]
ConvergenceFailure == [text |-> "potential endless mutation loop detected", src |-> 0]

VKinds == {"Allow", "Deny", "DenyDelete"}
MKinds == {"Noop", "Set1", "Set2", "Inc", "Fail"}

RECURSIVE SeqsUpTo(_, _)
SeqsUpTo(S, n) ==
    IF n = 0 THEN { << >> }
    ELSE LET shorter == SeqsUpTo(S, n - 1)
         IN shorter \cup { Append(s, x) : s \in { t \in shorter : Len(t) = n - 1 }, x \in S }

----------------------------------------------------------------------------
(* Sub-handler behaviours (implementations of ValidatingWebhook[T] and      *)
(* MutatingWebhook[T] supplied by the user)                                 *)

\* Error returned by the validating sub-handler at position k for method m.
ValidateResult(kind, k, m) ==
    CASE kind = "Allow"      -> NoErr
      [] kind = "Deny"       -> HandlerErr(k)
      [] kind = "DenyDelete" -> IF m = "DELETE" THEN HandlerErr(k) ELSE NoErr

\* Error returned by the mutating sub-handler at position k.
MutateResult(kind, k) ==
    IF kind = "Fail" THEN HandlerErr(k) ELSE NoErr

\* The object after the mutating sub-handler has run (in-place mutation).
\* A sub-handler that errors, and any sub-handler handed a nil object,
\* leaves the object as it is.
MutateEffect(kind, o) ==
    IF o = NilObj THEN o
    ELSE CASE kind = "Noop"   -> o
           [] kind = "Fail"   -> o
           [] kind = "Set1"   -> [o EXCEPT !.f = 1]
           [] kind = "Set2"   -> [o EXCEPT !.f = 2]
           [] kind = "Inc"    -> [o EXCEPT !.f = (o.f + 1) % (MaxVal + 1)]
           [] kind = "Poison" -> [o EXCEPT !.f = NaN]
           [] kind = "Block"  -> o

\* A sub-handler whose method does not return for this object: "Block" waits
\* forever when the object's field is 1 and does nothing otherwise.
Blocks(kind, o) == kind = "Block" /\ o # NilObj /\ o.f = 1

----------------------------------------------------------------------------
(* Registration: Register*WithRouter, Register*                             *)

\* Strings that strings.ToLower acts on are sequences of characters.
Lower(c) ==
    CASE c = "A" -> "a"
      [] c = "C" -> "c"
      [] c = "D" -> "d"
      [] c = "M" -> "m"
      [] c = "V" -> "v"
      [] OTHER -> c
ToLower(s) == [ k \in DOMAIN s |-> Lower(s[k]) ]

Slash == << "/" >>
Core == << "c", "o", "r", "e" >>
ValidateSuffix == << "v", "a", "l", "i", "d", "a", "t", "e" >>
MutateSuffix == << "m", "u", "t", "a", "t", "e" >>
Generic == << "g", "e", "n", "e", "r", "i", "c" >>
Healthz == << "/", "h", "e", "a", "l", "t", "h", "z" >>

\* path := "/generic/validate" | "/generic/mutate"
GenericPath(suffix) == Slash \o Generic \o Slash \o suffix

\* if gvk.Group == "" { gvk.Group = "core" }
\* path := "/" + ToLower(Group) + "/" + ToLower(Version) + "/" + ToLower(Kind) + "/validate"
GroupOrCoreMut(g) == g
GroupOrCore(g) == IF g = << >> THEN Core ELSE g
Path(gvk, suffix) ==
    Slash \o ToLower(GroupOrCore(gvk.group)) \o Slash \o ToLower(gvk.version)
          \o Slash \o ToLower(gvk.kind) \o Slash \o suffix

\* identities (group, version, kind) a scheme may know a type under
GVK(g, v, k) == [group |-> g, version |-> v, kind |-> k]
CoreV1ConfigMap == GVK(<< >>, << "v", "1" >>, << "C", "o", "n", "f", "i", "g", "M", "a", "p" >>)
CoreV1Configmap == GVK(<< >>, << "V", "1" >>, << "C", "o", "n", "f", "i", "g", "m", "a", "p" >>)
AppsV1Deployment == GVK(<< "A", "p", "p", "s" >>, << "v", "1" >>, << "D", "e", "p" >>)
GvkLists ==
    { << >>, << CoreV1ConfigMap >>, << AppsV1Deployment >>,
      << CoreV1ConfigMap, AppsV1Deployment >>, << CoreV1ConfigMap, CoreV1Configmap >> }

\* the type parameter T, as reflect.TypeOf(obj) of its zero value sees it:
\* "interface" (objType == nil), "unstructured" (*unstructured.Unstructured),
\* "concrete" (pointer to a resource type), "struct" (not a pointer)
TypeParams == {"interface", "unstructured", "concrete", "struct"}

\* scheme (nil or not) and what scheme.ObjectKinds(obj) yields for the type T;
\* a type the scheme does not know has no identities and ObjectKinds errors
NoScheme == [present |-> FALSE, gvks |-> << >>, unversioned |-> FALSE]
Schemes == {NoScheme} \cup [present : {TRUE}, gvks : GvkLists, unversioned : BOOLEAN]
ObjectKindsErrMut(scheme) == FALSE
ObjectKindsErr(scheme) == scheme.gvks = << >>

MissingSchemeErr == "encountering empty/missing scheme"
FetchSchemeErr == "error fetching scheme information for type"
UnversionedErr == "encountering unversioned object type"
UnsupportedKindErr == "encountering unsupported object kind"
Panicked == "panic"

\* router.Handle(path, handler): http.ServeMux panics when the pattern is
\* registered already; mux.Router appends a route, and the first match serves
Routers == {"ServeMux", "mux.Router"}
HasPath(table, path) == \E k \in DOMAIN table : table[k].path = path
HandlePanics(rt, table, path) == rt = "ServeMux" /\ HasPath(table, path)
Handle(table, path, h) == Append(table, [path |-> path, handler |-> h])

\* the handler that serves a path ("none" when no route matches)
NoHandler == [type |-> "none", call |-> 0]
Lookup(table, path) ==
    IF HasPath(table, path)
    THEN table[CHOOSE k \in DOMAIN table :
                  table[k].path = path /\ \A l \in 1..(k - 1) : table[l].path # path].handler
    ELSE NoHandler

\* the paths a Register{Validating,Mutating}WebhookWithRouter call hands to
\* router.Handle, and the error it returns otherwise
Registration(T, scheme, suffix) ==
    IF T = "interface" \/ T = "unstructured"
    THEN [err |-> "", paths |-> << GenericPath(suffix) >>]
    ELSE IF T = "struct" THEN [err |-> UnsupportedKindErr, paths |-> << >>]
    ELSE IF ~scheme.present THEN [err |-> MissingSchemeErr, paths |-> << >>]
    ELSE IF ObjectKindsErr(scheme)
    THEN [err |-> FetchSchemeErr, paths |-> << >>]
    ELSE IF scheme.unversioned THEN [err |-> UnversionedErr, paths |-> << >>]
    ELSE [err |-> "", paths |-> [ k \in DOMAIN scheme.gvks |-> Path(scheme.gvks[k], suffix) ]]

\* the router.Handle calls of one registration, in order, up to a panic
RECURSIVE HandleAll(_, _, _, _)
HandleAll(rt, table, paths, h) ==
    IF paths = << >> THEN [routes |-> table, err |-> ""]
    ELSE IF HandlePanics(rt, table, Head(paths)) THEN [routes |-> table, err |-> Panicked]
    ELSE HandleAll(rt, Handle(table, Head(paths), h), Tail(paths), h)

\* log.WithValues("type", "validation" | "mutation")
HandlerType(suffix) == IF suffix = ValidateSuffix THEN "validation" ELSE "mutation"

\* Register{Validating,Mutating}WebhookWithRouter(w, scheme, log, router)
RegisterWithRouter(rt, table, T, scheme, suffix, call) ==
    LET r == Registration(T, scheme, suffix)
    IN IF r.err # "" THEN [routes |-> table, err |-> r.err]
       ELSE HandleAll(rt, table, r.paths, [type |-> HandlerType(suffix), call |-> call])

\* RegisterWebhookWithRouter: validating, then mutating unless that failed
RegisterJointMut(rt, table, T, scheme, call) ==
    LET v == RegisterWithRouter(rt, table, T, scheme, ValidateSuffix, call)
    IN IF v.err # "" THEN v
       ELSE RegisterWithRouter(rt, v.routes, T, NoScheme, MutateSuffix, call)
RegisterJoint(rt, table, T, scheme, call) ==
    LET v == RegisterWithRouter(rt, table, T, scheme, ValidateSuffix, call)
    IN IF v.err # "" THEN v
       ELSE RegisterWithRouter(rt, v.routes, T, scheme, MutateSuffix, call)

----------------------------------------------------------------------------
(* Server lifecycle: Serve                                                  *)

ErrServerClosed == "http: Server closed"
ListenError == "listen error"
DeadlineExceeded == "context deadline exceeded"
NoBindAddressErr == "no bind address was specified"
NoCertFileErr == "no TLS certificate file was specified"
NoKeyFileErr == "no TLS key file was specified"

\* ServeOptions: whether BindAddress, CertFile, KeyFile are non-empty
ServeOptions == [bindAddress : BOOLEAN, certFile : BOOLEAN, keyFile : BOOLEAN]
NoOptions == [bindAddress |-> FALSE, certFile |-> FALSE, keyFile |-> FALSE]

\* the checks at the head of Serve ("": all passed)
OptionsErrMut(o) ==
    IF ~o.bindAddress THEN NoBindAddressErr
    ELSE IF ~o.certFile THEN NoCertFileErr
    ELSE ""
OptionsErr(o) ==
    IF ~o.bindAddress THEN NoBindAddressErr
    ELSE IF ~o.certFile THEN NoCertFileErr
    ELSE IF ~o.keyFile THEN NoKeyFileErr
    ELSE ""

\* a panic (of router.Handle) ends the process
Crashed == regErr = Panicked

NoRegArgs == [kind |-> "none", T |-> "interface", scheme |-> NoScheme]

\* the server before any Register* or Serve call
InitServer ==
    /\ routes = << >>
    /\ registered = 0
    /\ regErr = ""
    /\ regArgs = NoRegArgs
    /\ serve = "idle"
    /\ options = NoOptions
    /\ ctxDone = FALSE
    /\ ctxCh = "set"
    /\ listener = "none"
    /\ listenErr = ""
    /\ conns = 0
    /\ elapsed = 0
    /\ serveErr = "none"

----------------------------------------------------------------------------
(* Bytes: raw payloads of the request, re-encoded objects, patches          *)

\* A JSON document is abstracted to its kind, the member f of the type T
\* (f = 0: the member is absent, as json.Marshal omits a zero omitempty
\* member) and a member x that the type T does not declare (extra = 1: present).
EmptyRaw == [json |-> "", kind |-> "", f |-> 0, extra |-> 0]               \* len(Raw) = 0
UndecodableRaw == [json |-> "nokind", kind |-> "", f |-> 0, extra |-> 0]   \* JSON the decoder rejects
NullRaw == [json |-> "null", kind |-> "", f |-> 0, extra |-> 0]            \* the bytes "null"
ObjectRaw(k, v) == [json |-> "object", kind |-> k, f |-> v, extra |-> 0]   \* an encoded object
\* the same document with a member the type T does not declare
WithUnknownField(raw) == [raw EXCEPT !.extra = 1]

ObjectRaws == { EmptyRaw, UndecodableRaw, ObjectRaw(OtherKind, 0) }
                  \cup { ObjectRaw(TargetKind, v) : v \in Values }
                  \cup { WithUnknownField(ObjectRaw(TargetKind, v)) : v \in 0..1 }
OldObjectRaws == { EmptyRaw, UndecodableRaw, ObjectRaw(OtherKind, 0) }
                  \cup { ObjectRaw(o.kind, o.f) : o \in OldObjects }

\* decoder.Decode(raw, nil, nil): the error, and the object decoded; the typed
\* deserializer keeps the members the type declares and drops the others
DecodeFailsMut(raw) == FALSE
DecodeFails(raw) == raw.json # "object"
Decode(raw) == [kind |-> raw.kind, f |-> raw.f]

\* object.(T)
AssertsToT(o) == o.kind = TargetKind

\* jsonEncode(obj): json.Marshal, panic on error
JsonEncodePanics(o) == o # NilObj /\ o.f = NaN
JsonEncode(o) == IF o = NilObj THEN NullRaw ELSE ObjectRaw(o.kind, o.f)

\* one operation of a JSON patch; the value is given as a document
PatchOp(o, p, v) == [op |-> o, path |-> p, value |-> v]
MemberF(v) == ObjectRaw("", v)
MemberX == WithUnknownField(ObjectRaw("", 0))

\* the operations that turn member f (member x) of document a into that of b
MemberFOps(a, b) ==
    IF a.f = b.f THEN << >>
    ELSE IF a.f = 0 THEN << PatchOp("add", "/f", MemberF(b.f)) >>
    ELSE IF b.f = 0 THEN << PatchOp("remove", "/f", EmptyRaw) >>
    ELSE << PatchOp("replace", "/f", MemberF(b.f)) >>
MemberXOps(a, b) ==
    IF a.extra = b.extra THEN << >>
    ELSE IF a.extra = 0 THEN << PatchOp("add", "/x", MemberX) >>
    ELSE << PatchOp("remove", "/x", EmptyRaw) >>

\* jsonpatch.CreatePatch(a, b): fails on bytes that are no JSON document
CreatePatchFailsMut(a, b) == FALSE
CreatePatchFails(a, b) == a.json = "" \/ b.json = ""
CreatePatchMut(a, b) ==
    IF a = b THEN << >>
    ELSE << PatchOp("replace", "/f", MemberF(b.f)) >>
CreatePatch(a, b) ==
    IF a = b THEN << >>
    ELSE IF a.json # b.json \/ a.kind # b.kind
    THEN << PatchOp("replace", "", b) >>
    ELSE MemberFOps(a, b) \o MemberXOps(a, b)

NoPatch == [json |-> "", ops |-> << >>]
\* jsonEncode(patches)
JsonEncodePatch(ops) == [json |-> "array", ops |-> ops]

\* The patch applied to a document, as the API server applies the response's
\* patch to the object it sent (RFC 6902: remove and replace need the member
\* to be there).
FailedDoc == [json |-> "error", kind |-> "", f |-> 0, extra |-> 0]
ApplyOp(doc, o) ==
    IF doc.json = "error" THEN doc
    ELSE IF o.path = ""
    THEN (IF o.op \in {"add", "replace"} THEN o.value ELSE FailedDoc)
    ELSE IF doc.json # "object" THEN FailedDoc
    ELSE IF o.path = "/f"
    THEN (CASE o.op = "add" -> [doc EXCEPT !.f = o.value.f]
            [] o.op = "replace" -> IF doc.f = 0 THEN FailedDoc ELSE [doc EXCEPT !.f = o.value.f]
            [] o.op = "remove" -> IF doc.f = 0 THEN FailedDoc ELSE [doc EXCEPT !.f = 0]
            [] OTHER -> FailedDoc)
    ELSE (CASE o.op = "add" -> [doc EXCEPT !.extra = o.value.extra]
            [] o.op = "replace" -> IF doc.extra = 0 THEN FailedDoc
                                   ELSE [doc EXCEPT !.extra = o.value.extra]
            [] o.op = "remove" -> IF doc.extra = 0 THEN FailedDoc ELSE [doc EXCEPT !.extra = 0]
            [] OTHER -> FailedDoc)
RECURSIVE ApplyPatch(_, _)
ApplyPatch(doc, ops) ==
    IF ops = << >> THEN doc ELSE ApplyPatch(ApplyOp(doc, Head(ops)), Tail(ops))

----------------------------------------------------------------------------
(* AdmissionResponse *)

StatusText(code) ==
    CASE code = StatusBadRequest -> "Bad Request"
      [] code = StatusForbidden -> "Forbidden"
      [] code = StatusUnsupportedMediaType -> "Unsupported Media Type"
      [] code = StatusInternalServerError -> "Internal Server Error"
      [] OTHER -> ""

NoResp == [present |-> FALSE, allowed |-> FALSE, hasResult |-> FALSE, code |-> 0,
           reason |-> "", message |-> NoErr, patchType |-> "", patch |-> NoPatch, uid |-> 0]

\* toAdmissionError(code, err)
toAdmissionErrorMut(code, e) ==
    [NoResp EXCEPT !.present = TRUE, !.allowed = FALSE, !.hasResult = TRUE,
                   !.code = code, !.reason = StatusText(code),
                   !.message = [text |-> StatusText(code), src |-> 0]]
toAdmissionError(code, e) ==
    [NoResp EXCEPT !.present = TRUE, !.allowed = FALSE, !.hasResult = TRUE,
                   !.code = code, !.reason = StatusText(code), !.message = e]

\* &admissionv1.AdmissionResponse{Allowed: true}
AllowedResponse == [NoResp EXCEPT !.present = TRUE, !.allowed = TRUE]

\* &admissionv1.AdmissionResponse{PatchType: JSONPatch, Patch: jsonEncode(patches), Allowed: true}
PatchResponseMut(ops) ==
    [NoResp EXCEPT !.present = TRUE, !.allowed = TRUE, !.patch = JsonEncodePatch(ops)]
PatchResponse(ops) ==
    [NoResp EXCEPT !.present = TRUE, !.allowed = TRUE,
                   !.patchType = "JSONPatch", !.patch = JsonEncodePatch(ops)]

DecodeObjectErr == [text |-> "error decoding object from admission request", src |-> 0]
ConvertObjectErr == [text |-> "error converting object from admission request", src |-> 0]
DecodeOldObjectErr == [text |-> "error decoding old object from admission request", src |-> 0]
ConvertOldObjectErr == [text |-> "error converting old object from admission request", src |-> 0]
CreatePatchErr == [text |-> "error creating mutation patch", src |-> 0]

----------------------------------------------------------------------------
(* HTTP requests and replies *)

ContentTypes == {"application/json", "text/plain", ""}
Operations == Ops \cup {"CONNECT"}
Uids == 1..MaxUid

\* body: "nil" (r.Body == nil), "unreadable" (io.ReadAll fails), "ok"
\* envelope: "bad" (no AdmissionReview), "norequest" (review without request), "ok"
Request(b, ct, env, u, o, raw, oldRaw) ==
    [present |-> TRUE, body |-> b, contentType |-> ct, envelope |-> env,
     uid |-> u, operation |-> o, object |-> raw, oldObject |-> oldRaw]
NoReq == [present |-> FALSE, body |-> "nil", contentType |-> "", envelope |-> "bad",
          uid |-> 0, operation |-> "CREATE", object |-> EmptyRaw, oldObject |-> EmptyRaw]

Requests ==
    { Request(b, ct, "bad", 0, "CREATE", EmptyRaw, EmptyRaw) :
          b \in {"nil", "unreadable", "ok"}, ct \in ContentTypes }
    \cup { Request("ok", ct, "norequest", 0, "CREATE", EmptyRaw, EmptyRaw) : ct \in ContentTypes }
    \cup { Request(b, ct, "ok", u, o, raw, oldRaw) :
              b \in {"unreadable", "ok"}, ct \in ContentTypes, u \in Uids, o \in Operations,
              raw \in ObjectRaws, oldRaw \in OldObjectRaws }

NoReply == [status |-> 0, kind |-> "none", response |-> NoResp]
\* http.Error(w, err.Error(), code)
HttpError(code) == [status |-> code, kind |-> "text", response |-> NoResp]
\* w.Write(respBytes) with no status set before
HttpReview(r) == [status |-> StatusOK, kind |-> "review", response |-> r]

NoDecode == [envelope |-> FALSE, object |-> FALSE]

\* contentType != "application/json"
ContentTypeInvalidMut(ct) == ct = "text/plain"
ContentTypeInvalid(ct) == ct # "application/json"

\* json.Marshal(responseAdmissionReview) fails: not for a review built here
\* (strings, numbers, booleans and a byte slice)
MarshalReviewFails(r) == FALSE

----------------------------------------------------------------------------
\* The arguments a method of ValidatingWebhook[T] receives from the objects
\* at hand: ValidateCreate(ctx, obj), ValidateUpdate(ctx, oldObj, newObj),
\* ValidateDelete(ctx, oldObj).
SubArgs(m, old, new) ==
    CASE m = "CREATE" -> << new >>
      [] m = "UPDATE" -> << old, new >>
      [] m = "DELETE" -> << old >>

----------------------------------------------------------------------------
(* MultiValidatingWebhook.ValidateCreate / ValidateUpdate / ValidateDelete  *)

\* if err := w.Validate...(...); err != nil { return err }
ValidateStopsMut(e) == FALSE
ValidateStops(e) == e # NoErr

\* the arguments the composite hands to each sub-handler
ValidateForwardMut(m, old, new) == SubArgs(m, new, old)
ValidateForward(m, old, new) == SubArgs(m, old, new)

StartValidate ==
    /\ j' = 1
    /\ err' = NoErr
    /\ passes' = 0
    /\ passCalls' = << >>
    /\ calls' = 0
    /\ args' = {}
    /\ pc' = "vloop"
    /\ UNCHANGED << savedObj, i, count >>

ValidateStep ==
    /\ pc = "vloop"
    /\ j <= Len(webhooks)
    /\ LET e == ValidateResult(webhooks[j], j, op)
       IN /\ passCalls' = Append(passCalls, j)
          /\ calls' = calls + 1
          /\ args' = args \cup { ValidateForward(op, oldObj, obj) }
          /\ IF ValidateStops(e)
             THEN /\ err' = e
                  /\ pc' = "ret"
                  /\ j' = j
             ELSE /\ err' = err
                  /\ pc' = pc
                  /\ j' = j + 1
    /\ UNCHANGED << others, srv, adapter, multi, webhooks, caller, req, op, obj, inObj, oldObj, savedObj,
                    i, count, passes, decoded, resp, http >>

ValidateEnd ==
    /\ pc = "vloop"
    /\ j > Len(webhooks)
    /\ err' = NoErr
    /\ pc' = "ret"
    /\ UNCHANGED << others, srv, adapter, multi, webhooks, caller, req, op, obj, inObj, oldObj, savedObj,
                    i, j, count, passes, passCalls, calls, args, decoded, resp, http >>

----------------------------------------------------------------------------
(* MultiMutatingWebhook.MutateCreate / MutateUpdate                         *)

\* if i > 100*len(w.webhooks) { return fmt.Errorf("potential endless ...") }
PassLimitExceededMut(idx, n) == idx > n
PassLimitExceeded(idx, n) == idx > PassFactor * n

\* !reflect.DeepEqual(obj, savedObj); a NaN never equals itself
ChangeDetectedMut(o, saved) == FALSE
ChangeDetected(o, saved) == o.f = NaN \/ o # saved

\* if count > 1 { break }
BreakPassMut(c) == c > 0
BreakPass(c) == c > 1

\* if count <= 1 { break }  (leaves the outer loop: return nil)
ConvergedMut(c) == TRUE
ConvergedStrictMut(c) == c = 0
Converged(c) == c <= 1

StartMutate ==
    /\ i' = 0
    /\ j' = 1
    /\ count' = 0
    /\ err' = NoErr
    /\ passes' = 0
    /\ passCalls' = << >>
    /\ calls' = 0
    /\ args' = {}
    /\ pc' = "mpass"
    /\ UNCHANGED savedObj

\* The history counter passes is explored up to PassCap, which the loop as
\* written never reaches (it starts at most PassFactor * n + 1 passes).
PassCap == PassFactor * MaxHandlers + 2

\* head of the outer loop: bound check, count := 0, savedObj := obj.DeepCopyObject().(T)
MutatePassStart ==
    /\ pc = "mpass"
    /\ passes < PassCap
    /\ IF PassLimitExceeded(i, Len(webhooks))
       THEN /\ err' = ConvergenceFailure
            /\ pc' = "ret"
            /\ UNCHANGED << savedObj, j, count, passes, passCalls >>
       ELSE IF obj = NilObj
       THEN \* DeepCopyObject of a nil T yields a nil interface; .(T) panics
            /\ pc' = "panic"
            /\ UNCHANGED << err, savedObj, j, count, passes, passCalls >>
       ELSE /\ count' = 0
            /\ savedObj' = obj
            /\ j' = 1
            /\ passes' = passes + 1
            /\ passCalls' = << >>
            /\ pc' = IF Len(webhooks) = 0 THEN "mend" ELSE "mloop"
            /\ err' = err
    /\ UNCHANGED << others, srv, adapter, multi, webhooks, caller, req, op, obj, inObj, oldObj,
                    i, calls, args, decoded, resp, http >>

\* if err := w.Mutate...(...); err != nil { return err }
MutateStopsMut(e) == FALSE
MutateStops(e) == e # NoErr

\* one iteration of the inner range loop
MutateStep ==
    /\ pc = "mloop"
    /\ j <= Len(webhooks)
    /\ LET e == MutateResult(webhooks[j], j)
           o == MutateEffect(webhooks[j], obj)
           c == IF ChangeDetected(o, savedObj) THEN count + 1 ELSE count
       IN /\ passCalls' = Append(passCalls, j)
          /\ calls' = calls + 1
          /\ obj' = o
          /\ IF Blocks(webhooks[j], obj)
             THEN \* the call never returns: the loop stays inside it
                  /\ pc' = "hang"
                  /\ UNCHANGED << err, j, count >>
             ELSE IF MutateStops(e)
             THEN /\ err' = e
                  /\ pc' = "ret"
                  /\ UNCHANGED << j, count >>
             ELSE /\ err' = err
                  /\ count' = c
                  /\ j' = j + 1
                  /\ pc' = IF BreakPass(c) \/ j = Len(webhooks) THEN "mend" ELSE "mloop"
    /\ UNCHANGED << others, srv, adapter, multi, webhooks, caller, req, op, inObj, oldObj, savedObj,
                    i, passes, args, decoded, resp, http >>

\* for i := 0; ; i++
NextPassMut(idx) == idx
NextPass(idx) == idx + 1

\* after the inner loop: leave the outer loop, or i++ and the next pass
MutatePassEnd ==
    /\ pc = "mend"
    /\ IF Converged(count)
       THEN /\ err' = NoErr
            /\ pc' = "ret"
            /\ i' = i
       ELSE /\ err' = err
            /\ pc' = "mpass"
            /\ i' = NextPass(i)
    /\ UNCHANGED << others, srv, adapter, multi, webhooks, caller, req, op, obj, inObj, oldObj, savedObj,
                    j, count, passes, passCalls, calls, args, decoded, resp, http >>

----------------------------------------------------------------------------
(* Direct use of a composite by user code *)

CallValidate ==
    /\ pc = "idle"
    /\ multi
    /\ adapter = "validating"
    /\ \E m \in Ops, o \in Objects, old \in OldObjects :
          /\ op' = m
          /\ obj' = IF m = "DELETE" THEN NilObj ELSE o
          /\ inObj' = IF m = "DELETE" THEN NilObj ELSE o
          /\ oldObj' = IF m = "CREATE" THEN NilObj ELSE old
    /\ caller' = "direct"
    /\ StartValidate
    /\ UNCHANGED << others, srv, adapter, multi, webhooks, req, decoded, resp, http >>

CallMutate ==
    /\ pc = "idle"
    /\ multi
    /\ adapter = "mutating"
    /\ \E m \in {"CREATE", "UPDATE"}, o \in Objects, old \in OldObjects :
          /\ op' = m
          /\ obj' = o
          /\ inObj' = o
          /\ oldObj' = IF m = "CREATE" THEN NilObj ELSE old
    /\ caller' = "direct"
    /\ StartMutate
    /\ UNCHANGED << others, srv, adapter, multi, webhooks, req, decoded, resp, http >>

\* the method of the composite returns to user code
ReturnDirect ==
    /\ pc = "ret"
    /\ caller = "direct"
    /\ pc' = "done"
    /\ UNCHANGED << others, srv, adapter, multi, webhooks, caller, req, op, obj, inObj, oldObj, savedObj,
                    i, j, count, err, passes, passCalls, calls, args, decoded, resp, http >>

\* the task is over; the next call or request starts from a clean slate
Reset ==
    /\ pc \in {"done", "panic"}
    /\ pc' = "idle"
    /\ caller' = "none"
    /\ req' = NoReq
    /\ op' = "CREATE"
    /\ obj' = NilObj
    /\ inObj' = NilObj
    /\ oldObj' = NilObj
    /\ savedObj' = NilObj
    /\ i' = 0
    /\ j' = 1
    /\ count' = 0
    /\ err' = NoErr
    /\ passes' = 0
    /\ passCalls' = << >>
    /\ calls' = 0
    /\ args' = {}
    /\ decoded' = NoDecode
    /\ resp' = NoResp
    /\ http' = NoReply
    /\ UNCHANGED << others, srv, adapter, multi, webhooks >>

InitTask ==
    /\ pc = "idle"
    /\ caller = "none"
    /\ req = NoReq
    /\ op = "CREATE"
    /\ obj = NilObj
    /\ inObj = NilObj
    /\ oldObj = NilObj
    /\ savedObj = NilObj
    /\ i = 0
    /\ j = 1
    /\ count = 0
    /\ err = NoErr
    /\ passes = 0
    /\ passCalls = << >>
    /\ calls = 0
    /\ args = {}
    /\ decoded = NoDecode
    /\ resp = NoResp
    /\ http = NoReply

\* NewMultiValidatingWebhook(webhooks...) / NewMultiMutatingWebhook(webhooks...)
InitMulti ==
    /\ multi = TRUE
    /\ adapter \in {"validating", "mutating"}
    /\ webhooks \in SeqsUpTo(IF adapter = "validating" THEN VKinds ELSE MKinds, MaxHandlers)
    /\ InitTask
    /\ router = "ServeMux"
    /\ InitServer
    /\ others = << >>

NextMulti ==
    \/ CallValidate
    \/ ValidateStep
    \/ ValidateEnd
    \/ CallMutate
    \/ MutatePassStart
    \/ MutateStep
    \/ MutatePassEnd
    \/ ReturnDirect
    \/ Reset

SpecMulti == InitMulti /\ [][NextMulti]_vars

\* the goroutine that called the composite keeps running: a loop step that
\* is possible is eventually taken
MutateLoop ==
    \/ MutatePassStart
    \/ MutateStep
    \/ MutatePassEnd

SpecMultiFair == SpecMulti /\ WF_vars(MutateLoop)

----------------------------------------------------------------------------
(* handleAdmission, up to the call of admitFunc *)

\* handleAdmission for a request out of the set R
HandleRequest(R) ==
    /\ \E r \in R :
          /\ req' = r
          /\ IF r.body = "nil"
             THEN /\ http' = HttpError(StatusBadRequest)
                  /\ pc' = "done"
                  /\ decoded' = decoded
             ELSE IF r.body = "unreadable"
             THEN /\ http' = HttpError(StatusInternalServerError)
                  /\ pc' = "done"
                  /\ decoded' = decoded
             ELSE IF ContentTypeInvalid(r.contentType)
             THEN /\ http' = HttpError(StatusUnsupportedMediaType)
                  /\ pc' = "done"
                  /\ decoded' = decoded
             ELSE IF r.envelope = "bad"
             THEN /\ http' = HttpError(StatusBadRequest)
                  /\ pc' = "done"
                  /\ decoded' = [decoded EXCEPT !.envelope = TRUE]
             ELSE IF r.envelope = "norequest"
             THEN \* requestedAdmissionReview.Request.Operation: nil dereference
                  /\ http' = http
                  /\ pc' = "panic"
                  /\ decoded' = [decoded EXCEPT !.envelope = TRUE]
             ELSE /\ http' = http
                  /\ pc' = "admit"
                  /\ decoded' = [decoded EXCEPT !.envelope = TRUE]
          /\ op' = r.operation
    /\ caller' = "adapter"
    /\ UNCHANGED << others, srv, adapter, multi, webhooks, obj, inObj, oldObj, savedObj,
                    i, j, count, err, passes, passCalls, calls, args, resp >>

HandleAdmission ==
    /\ pc = "idle"
    /\ HandleRequest(Requests)

----------------------------------------------------------------------------
(* admitFunc of NewValidatingWebhookHandler / NewMutatingWebhookHandler     *)

\* decoding of req.Object.Raw and req.OldObject.Raw (the same in both adapters)
DecodeError(raw, oldRaw) ==
    IF raw.json # "" /\ DecodeFails(raw) THEN DecodeObjectErr
    ELSE IF raw.json # "" /\ ~AssertsToT(Decode(raw)) THEN ConvertObjectErr
    ELSE IF oldRaw.json # "" /\ DecodeFails(oldRaw) THEN DecodeOldObjectErr
    ELSE IF oldRaw.json # "" /\ ~AssertsToT(Decode(oldRaw)) THEN ConvertOldObjectErr
    ELSE NoErr

AdmitDecode ==
    /\ pc = "admit"
    /\ decoded' = [decoded EXCEPT !.object = (req.object.json # "" \/ req.oldObject.json # "")]
    /\ LET e == DecodeError(req.object, req.oldObject)
       IN IF e # NoErr
          THEN /\ resp' = toAdmissionError(StatusBadRequest, e)
               /\ pc' = "respond"
               /\ UNCHANGED << obj, inObj, oldObj >>
          ELSE /\ obj' = IF req.object.json = "" THEN NilObj ELSE Decode(req.object)
               /\ inObj' = obj'
               /\ oldObj' = IF req.oldObject.json = "" THEN NilObj ELSE Decode(req.oldObject)
               /\ resp' = resp
               /\ pc' = "dispatch"
    /\ UNCHANGED << others, srv, adapter, multi, webhooks, caller, req, op, savedObj,
                    i, j, count, err, passes, passCalls, calls, args, http >>

\* the handler method the switch on req.Operation selects ("" when none)
MethodForMut(a, o) == IF o \in {"CREATE", "UPDATE", "DELETE"} THEN o ELSE ""
MethodFor(a, o) ==
    IF a = "validating"
    THEN (IF o \in {"CREATE", "UPDATE", "DELETE"} THEN o ELSE "")
    ELSE (IF o \in {"CREATE", "UPDATE"} THEN o ELSE "")

\* switch req.Operation { ... }: the call of w's method
Dispatch ==
    /\ pc = "dispatch"
    /\ IF MethodFor(adapter, op) = ""
       THEN /\ pc' = "finish"
            /\ UNCHANGED << obj, savedObj, i, j, count, err, passes, passCalls, calls, args >>
       ELSE IF multi
       THEN /\ IF adapter = "validating" THEN StartValidate ELSE StartMutate
            /\ obj' = obj
       ELSE IF adapter = "validating"
       THEN /\ err' = ValidateResult(webhooks[1], 1, op)
            /\ passCalls' = << 1 >>
            /\ calls' = 1
            /\ args' = { SubArgs(MethodFor(adapter, op), oldObj, obj) }
            /\ pc' = "finish"
            /\ UNCHANGED << obj, savedObj, i, j, count, passes >>
       ELSE /\ err' = MutateResult(webhooks[1], 1)
            /\ obj' = MutateEffect(webhooks[1], obj)
            /\ passCalls' = << 1 >>
            /\ calls' = 1
            /\ args' = { SubArgs(MethodFor(adapter, op), oldObj, obj) }
            /\ pc' = IF Blocks(webhooks[1], obj) THEN "hang" ELSE "finish"
            /\ UNCHANGED << savedObj, i, j, count, passes >>
    /\ UNCHANGED << others, srv, adapter, multi, webhooks, caller, req, op, inObj, oldObj,
                    decoded, resp, http >>

\* the response admitFunc builds once the handler method has returned
AdmitResponse(a, e, raw, o) ==
    IF e # NoErr THEN toAdmissionError(StatusForbidden, e)
    ELSE IF a = "validating" THEN AllowedResponse
    ELSE IF CreatePatchFails(raw, JsonEncode(o))
    THEN toAdmissionError(StatusInternalServerError, CreatePatchErr)
    ELSE IF Len(CreatePatch(raw, JsonEncode(o))) > 0
    THEN PatchResponse(CreatePatch(raw, JsonEncode(o)))
    ELSE AllowedResponse

AdmitFinish ==
    /\ \/ pc = "finish"
       \/ pc = "ret" /\ caller = "adapter"
    /\ IF err = NoErr /\ adapter = "mutating" /\ JsonEncodePanics(obj)
       THEN /\ pc' = "panic"
            /\ resp' = resp
       ELSE /\ pc' = "respond"
            /\ resp' = AdmitResponse(adapter, err, req.object, obj)
    /\ UNCHANGED << others, srv, adapter, multi, webhooks, caller, req, op, obj, inObj, oldObj, savedObj,
                    i, j, count, err, passes, passCalls, calls, args, decoded, http >>

----------------------------------------------------------------------------
(* handleAdmission, after admitFunc *)

\* responseAdmissionReview.Response.UID = requestedAdmissionReview.Request.UID
SetUIDMut(r, u) == r
SetUID(r, u) == [r EXCEPT !.uid = u]

WriteResponse ==
    /\ pc = "respond"
    /\ LET r == SetUID(resp, req.uid)
       IN /\ resp' = r
          /\ http' = IF MarshalReviewFails(r)
                     THEN HttpError(StatusInternalServerError)
                     ELSE HttpReview(r)
    /\ pc' = "done"
    /\ UNCHANGED << others, srv, adapter, multi, webhooks, caller, req, op, obj, inObj, oldObj, savedObj,
                    i, j, count, err, passes, passCalls, calls, args, decoded >>

----------------------------------------------------------------------------
(* The context handed to the handler methods (context.go)                   *)

\* context.Background(): no logger, no value under admissionRequestContextKey
Background == [logger |-> FALSE, admissionRequest |-> NoReq]

\* context.WithValue(ctx, admissionRequestContextKey, req)
contextWithAdmissionRequest(ctx, r) == [ctx EXCEPT !.admissionRequest = r]

\* the request found under the key, or an error
AdmissionRequestFromContext(ctx) ==
    IF ctx.admissionRequest.present
    THEN [request |-> ctx.admissionRequest, err |-> ""]
    ELSE [request |-> NoReq, err |-> "admission request not found in context"]

\* the context handleAdmission passes to admitFunc for request r, which
\* admitFunc passes on to the handler method:
\* logr.NewContext(context.Background(), log)
AdmitContext(r) == [Background EXCEPT !.logger = TRUE]

\* NewValidatingWebhookHandler(w, ...) / NewMutatingWebhookHandler(w, ...) with
\* w a single handler or a composite
Init ==
    /\ adapter \in {"validating", "mutating"}
    /\ multi \in BOOLEAN
    /\ webhooks \in IF multi
                    THEN SeqsUpTo(IF adapter = "validating" THEN VKinds ELSE MKinds,
                                  MaxAdmHandlers)
                    ELSE { << k >> : k \in IF adapter = "validating" THEN VKinds
                                           ELSE MKinds \cup {"Poison"} }
    /\ InitTask
    /\ router = "ServeMux"
    /\ InitServer
    /\ others = << >>

Next ==
    \/ HandleAdmission
    \/ AdmitDecode
    \/ Dispatch
    \/ ValidateStep
    \/ ValidateEnd
    \/ MutatePassStart
    \/ MutateStep
    \/ MutatePassEnd
    \/ AdmitFinish
    \/ WriteResponse
    \/ Reset

Spec == Init /\ [][Next]_vars

----------------------------------------------------------------------------
(* Register* calls and Serve, as the program's main function and the Go      *)
(* runtime interleave them                                                   *)

MaxRegs == 2            \* Register* calls explored
MaxConns == 2           \* connections open at a time
GracePeriod == 10       \* webhook.go:407  context.WithTimeout(..., 10*time.Second)

\* one Register* call; a scheme is passed along with a concrete type only
RegisterCall(kind) ==
    /\ ~Crashed
    /\ \E T \in TypeParams, s \in Schemes :
          /\ T # "concrete" => s = NoScheme
          /\ LET r == CASE kind = "validating" ->
                             RegisterWithRouter(router, routes, T, s, ValidateSuffix, registered + 1)
                        [] kind = "mutating" ->
                             RegisterWithRouter(router, routes, T, s, MutateSuffix, registered + 1)
                        [] kind = "joint" ->
                             RegisterJoint(router, routes, T, s, registered + 1)
             IN /\ routes' = r.routes
                /\ regErr' = r.err
          /\ regArgs' = [kind |-> kind, T |-> T, scheme |-> s]
    /\ registered' = registered + 1
    /\ UNCHANGED << others, router, serve, options, ctxDone, ctxCh, listener, listenErr, conns,
                    elapsed, serveErr, adapter, multi, webhooks, task >>

RegisterValidatingWebhook ==
    /\ registered < MaxRegs
    /\ RegisterCall("validating")

RegisterMutatingWebhook ==
    /\ registered < MaxRegs
    /\ RegisterCall("mutating")

RegisterWebhook ==
    /\ registered < MaxRegs
    /\ RegisterCall("joint")

\* Serve, from its call to the start of the listener goroutine; it can be
\* called again once it has returned a startup error
ServeCall ==
    /\ ~Crashed
    /\ serve = "idle" \/ (serve = "returned" /\ listener = "none")
    /\ \E o \in ServeOptions :
          /\ options' = o
          /\ IF OptionsErr(o) # ""
             THEN /\ serveErr' = OptionsErr(o)
                  /\ serve' = "returned"
                  /\ UNCHANGED << routes, listener >>
             ELSE \* http.HandleFunc("/healthz", ...) acts on http.DefaultServeMux
                  /\ routes' = IF router = "ServeMux"
                               THEN Handle(routes, Healthz, [type |-> "healthz", call |-> 0])
                               ELSE routes
                  /\ listener' = "starting"
                  /\ serve' = "select"
                  /\ serveErr' = "none"
    /\ ctxCh' = "set"
    /\ UNCHANGED << others, router, registered, regErr, regArgs, ctxDone, listenErr, conns, elapsed,
                    adapter, multi, webhooks, task >>

\* the caller's cancel()
Cancel ==
    /\ ~Crashed
    /\ serve # "returned"
    /\ ~ctxDone
    /\ ctxDone' = TRUE
    /\ UNCHANGED << others, router, routes, registered, regErr, regArgs, serve, options, ctxCh,
                    listener, listenErr, conns, elapsed, serveErr,
                    adapter, multi, webhooks, task >>

\* the goroutine: server.ListenAndServeTLS begins to listen, or fails, or finds
\* the server shut down already
ListenAndServeTLS ==
    /\ ~Crashed
    /\ listener = "starting"
    /\ IF ctxCh = "nil"
       THEN listener' = "sending" /\ listenErr' = ErrServerClosed
       ELSE \/ listener' = "listening" /\ listenErr' = listenErr
            \/ listener' = "sending" /\ listenErr' = ListenError
    /\ UNCHANGED << others, router, routes, registered, regErr, regArgs, serve, options, ctxDone,
                    ctxCh, conns, elapsed, serveErr, adapter, multi, webhooks, task >>

\* the listener accepts a connection and its request begins
Accept ==
    /\ ~Crashed
    /\ listener = "listening"
    /\ ctxCh = "set"
    /\ conns < MaxConns
    /\ conns' = conns + 1
    /\ UNCHANGED << others, router, routes, registered, regErr, regArgs, serve, options, ctxDone,
                    ctxCh, listener, listenErr, elapsed, serveErr,
                    adapter, multi, webhooks, task >>

\* a request's handler returns and its connection is closed
ConnDone ==
    /\ ~Crashed
    /\ serve # "returned"
    /\ conns > 0
    /\ conns' = conns - 1
    /\ UNCHANGED << others, router, routes, registered, regErr, regArgs, serve, options, ctxDone,
                    ctxCh, listener, listenErr, elapsed, serveErr,
                    adapter, multi, webhooks, task >>

\* server.ListenAndServeTLS returns: ErrServerClosed once Shutdown has been
\* called, an accept error otherwise
ListenerReturns ==
    /\ ~Crashed
    /\ listener = "listening"
    /\ listener' = "sending"
    /\ listenErr' = IF ctxCh = "nil" THEN ErrServerClosed ELSE ListenError
    /\ UNCHANGED << others, router, routes, registered, regErr, regArgs, serve, options, ctxDone,
                    ctxCh, conns, elapsed, serveErr, adapter, multi, webhooks, task >>

\* case <-ctxCh: ctxCh = nil, and server.Shutdown is called with a timeout
SelectCtx ==
    /\ ~Crashed
    /\ serve = "select"
    /\ ctxDone /\ ctxCh = "set"
    /\ ctxCh' = "nil"
    /\ elapsed' = 0
    /\ serve' = "shutdown"
    /\ UNCHANGED << others, router, routes, registered, regErr, regArgs, options, ctxDone,
                    listener, listenErr, conns, serveErr, adapter, multi, webhooks, task >>

\* time passes while server.Shutdown waits for the connections to end
Tick ==
    /\ ~Crashed
    /\ serve = "shutdown"
    /\ conns > 0
    /\ elapsed < GracePeriod
    /\ elapsed' = elapsed + 1
    /\ UNCHANGED << others, router, routes, registered, regErr, regArgs, serve, options, ctxDone,
                    ctxCh, listener, listenErr, conns, serveErr,
                    adapter, multi, webhooks, task >>

\* server.Shutdown(ctx) returns: nil when no connection is open any more, ctx.Err()
\* when the timeout expires first; if err != nil { return err }
ShutdownErrMut(c, t) == ""
ShutdownErr(c, t) == IF c > 0 /\ t >= GracePeriod THEN DeadlineExceeded ELSE ""
ShutdownReturns ==
    /\ ~Crashed
    /\ serve = "shutdown"
    /\ conns = 0 \/ elapsed >= GracePeriod
    /\ IF ShutdownErr(conns, elapsed) # ""
       THEN serveErr' = ShutdownErr(conns, elapsed) /\ serve' = "returned"
       ELSE serveErr' = serveErr /\ serve' = "select"
    /\ UNCHANGED << others, router, routes, registered, regErr, regArgs, options, ctxDone, ctxCh,
                    listener, listenErr, conns, elapsed, adapter, multi, webhooks, task >>

\* case err := <-errCh: nil for http.ErrServerClosed, err otherwise
ServeResultMut(e) == ""
ServeResult(e) == IF e = ErrServerClosed THEN "nil" ELSE e
SelectErr ==
    /\ ~Crashed
    /\ serve = "select"
    /\ listener = "sending"
    /\ listener' = "ended"
    /\ serveErr' = ServeResult(listenErr)
    /\ serve' = "returned"
    /\ UNCHANGED << others, router, routes, registered, regErr, regArgs, options, ctxDone, ctxCh,
                    listenErr, conns, elapsed, adapter, multi, webhooks, task >>

\* a Register* call made once Serve has started the listener goroutine
MaxLateRegs == 1        \* Register* calls explored after Serve has been called
LateRegister ==
    /\ listener # "none"
    /\ serve # "returned"
    /\ registered < MaxLateRegs
    /\ \/ RegisterValidatingWebhook
       \/ RegisterMutatingWebhook
       \/ RegisterWebhook

\* the program before main has called Register* or Serve
InitServe ==
    /\ adapter = "validating"
    /\ multi = FALSE
    /\ webhooks = << "Allow" >>
    /\ InitTask
    /\ router \in Routers
    /\ InitServer
    /\ others = << >>

\* startup: the Register* calls of the main function
NextRegister ==
    \/ RegisterValidatingWebhook
    \/ RegisterMutatingWebhook
    \/ RegisterWebhook

SpecRegister == InitServe /\ [][NextRegister]_vars

\* Serve, its goroutine, the connections, and registrations that come late
NextServe ==
    \/ ServeCall
    \/ Cancel
    \/ ListenAndServeTLS
    \/ Accept
    \/ ConnDone
    \/ ListenerReturns
    \/ SelectCtx
    \/ Tick
    \/ ShutdownReturns
    \/ SelectErr
    \/ LateRegister

SpecServe == InitServe /\ [][NextServe]_vars

----------------------------------------------------------------------------
(* Requests in flight at the same time: net/http runs every connection's    *)
(* handler on a goroutine of its own. The task variables are the locals of  *)
(* the goroutine that is running; others holds the locals of the rest.      *)

MaxTasks == 2           \* requests in flight at a time

\* the locals of handleAdmission, admitFunc and the composite's method
TaskLocal ==
    [pc |-> pc, caller |-> caller, req |-> req, op |-> op, obj |-> obj, inObj |-> inObj,
     oldObj |-> oldObj, savedObj |-> savedObj, i |-> i, j |-> j, count |-> count, err |-> err,
     passes |-> passes, passCalls |-> passCalls, calls |-> calls, args |-> args,
     decoded |-> decoded, resp |-> resp, http |-> http]

\* a goroutine that has not read its request yet
IdleTask ==
    [pc |-> "idle", caller |-> "none", req |-> NoReq, op |-> "CREATE", obj |-> NilObj,
     inObj |-> NilObj, oldObj |-> NilObj, savedObj |-> NilObj, i |-> 0, j |-> 1, count |-> 0,
     err |-> NoErr, passes |-> 0, passCalls |-> << >>, calls |-> 0, args |-> {},
     decoded |-> NoDecode, resp |-> NoResp, http |-> NoReply]

\* The locals a goroutine finds when it runs again after goroutine r ran: its
\* own. obj is declared inside admitFunc, once per call.
ResumeMut(t, r) == [t EXCEPT !.obj = r.obj]
Resume(t, r) == t

\* the scheduler lets another goroutine run
Switch ==
    \E k \in DOMAIN others :
        LET t == Resume(others[k], TaskLocal)
        IN /\ others' = [others EXCEPT ![k] = TaskLocal]
           /\ pc' = t.pc
           /\ caller' = t.caller
           /\ req' = t.req
           /\ op' = t.op
           /\ obj' = t.obj
           /\ inObj' = t.inObj
           /\ oldObj' = t.oldObj
           /\ savedObj' = t.savedObj
           /\ i' = t.i
           /\ j' = t.j
           /\ count' = t.count
           /\ err' = t.err
           /\ passes' = t.passes
           /\ passCalls' = t.passCalls
           /\ calls' = t.calls
           /\ args' = t.args
           /\ decoded' = t.decoded
           /\ resp' = t.resp
           /\ http' = t.http
           /\ UNCHANGED << srv, adapter, multi, webhooks >>

\* the requests sent at the same time: CREATE reviews of an object of kind T,
\* and one with a content type handleAdmission rejects
ConcFields == {0, 1}
ConcRequests ==
    { Request("ok", "application/json", "ok", u, "CREATE", ObjectRaw(TargetKind, v), EmptyRaw) :
          u \in Uids, v \in ConcFields }
    \cup { Request("ok", "text/plain", "ok", 1, "CREATE", ObjectRaw(TargetKind, 0), EmptyRaw) }

\* the mutating handlers served: single ones and composites, with and without
\* a sub-handler that does not return
ConcHandlers ==
    { [multi |-> FALSE, webhooks |-> << "Set1" >>],
      [multi |-> FALSE, webhooks |-> << "Block" >>],
      [multi |-> TRUE, webhooks |-> << "Set1", "Set2" >>],
      [multi |-> TRUE, webhooks |-> << "Block", "Set2" >>] }

HandleConcurrent ==
    /\ pc = "idle"
    /\ HandleRequest(ConcRequests)

InitConc ==
    /\ adapter = "mutating"
    /\ \E h \in ConcHandlers : multi = h.multi /\ webhooks = h.webhooks
    /\ InitTask
    /\ router = "ServeMux"
    /\ InitServer
    /\ others = [k \in 1..(MaxTasks - 1) |-> IdleTask]

\* the steps of the goroutine that is running
TaskStep ==
    \/ AdmitDecode
    \/ Dispatch
    \/ MutatePassStart
    \/ MutateStep
    \/ MutatePassEnd
    \/ AdmitFinish
    \/ WriteResponse

NextConc ==
    \/ HandleConcurrent
    \/ AdmitDecode
    \/ Dispatch
    \/ MutatePassStart
    \/ MutateStep
    \/ MutatePassEnd
    \/ AdmitFinish
    \/ WriteResponse
    \/ Switch

SpecConc == InitConc /\ [][NextConc]_vars

----------------------------------------------------------------------------
(* Properties of the composite webhooks (checked under SpecMulti)           *)

InValidate == adapter = "validating" /\ caller = "direct"
InMutate == adapter = "mutating" /\ caller = "direct"
Returned == pc \in {"ret", "done"}
NumHandlers == Len(webhooks)

\* positions of the validating sub-handlers that reject the call at hand
Deniers == { k \in 1..NumHandlers : ValidateResult(webhooks[k], k, op) # NoErr }
FirstDenier == CHOOSE k \in Deniers : \A l \in Deniers : k <= l
UpTo(n) == [ k \in 1..n |-> k ]

\* C1: a composite validating webhook invokes its sub-handlers in registration
\* order, each at most once and with the arguments of the call; it returns the
\* error of the first sub-handler that errors and invokes none after it; if
\* none errors every sub-handler is invoked exactly once and the result is nil.
C1_FailFastInOrder ==
    InValidate =>
        /\ passCalls = UpTo(Len(passCalls))
        /\ calls = Len(passCalls)
        /\ args \subseteq { SubArgs(op, oldObj, obj) }
        /\ Returned =>
              IF Deniers = {}
              THEN err = NoErr /\ passCalls = UpTo(NumHandlers)
              ELSE err = HandlerErr(FirstDenier) /\ passCalls = UpTo(FirstDenier)

\* a call of each kind has returned the error of the second of three
\* sub-handlers although the third rejects as well
C1_Witness ==
    /\ InValidate /\ pc = "done"
    /\ NumHandlers = 3
    /\ Deniers = {2, 3}
    /\ err = HandlerErr(2)
    /\ passCalls = << 1, 2 >>
    /\ op = "UPDATE"

Changers == {"Set1", "Set2", "Inc"}
ChangerAt(k) ==
    /\ k \in 1..NumHandlers
    /\ webhooks[k] \in Changers
    /\ \A l \in 1..NumHandlers : l # k => webhooks[l] = "Noop"
\* only one sub-handler ever changes the object (and none errors)
OneChanger == \E k \in 1..NumHandlers : ChangerAt(k)
TheChanger == CHOOSE k \in 1..NumHandlers : ChangerAt(k)
ChangesInput == MutateEffect(webhooks[TheChanger], inObj) # inObj
PassBound == PassFactor * NumHandlers

\* C2 as stated: with only one sub-handler ever changing the object, whatever
\* its position, the loop ends successfully after exactly one pass, every
\* sub-handler having been invoked exactly once.
C2_OnePassAnyPosition ==
    (InMutate /\ OneChanger) =>
        /\ passes <= 1
        /\ pc = "done" => (err = NoErr /\ passes = 1 /\ calls = NumHandlers)

\* C2 amended: with only one sub-handler ever changing the object, the loop
\* ends successfully after exactly one pass if that sub-handler is the last of
\* the list or leaves the object handed in as it is; otherwise the first pass
\* is abandoned after the sub-handler that follows it, and the loop ends
\* successfully after exactly two passes if a second application of the
\* sub-handler changes nothing, and with ConvergenceFailure (after 100*n+1
\* abandoned passes) if the sub-handler changes the object on every invocation.
C2_OnePassIfLast ==
    (InMutate /\ OneChanger /\ pc = "done") =>
        IF TheChanger = NumHandlers \/ ~ChangesInput
        THEN err = NoErr /\ passes = 1 /\ calls = NumHandlers
        ELSE IF webhooks[TheChanger] = "Inc"
        THEN /\ err = ConvergenceFailure
             /\ passes = PassBound + 1
             /\ calls = (TheChanger + 1) * passes
        ELSE /\ err = NoErr
             /\ passes = 2
             /\ calls = TheChanger + 1 + NumHandlers
             /\ obj = MutateEffect(webhooks[TheChanger], inObj)

\* the changing sub-handler is first of three and the loop took two passes
C2_Witness ==
    /\ InMutate /\ pc = "done"
    /\ webhooks = << "Set1", "Noop", "Noop" >>
    /\ inObj.f = 0
    /\ obj.f = 1
    /\ passes = 2
    /\ calls = 5
    /\ err = NoErr

\* sub-handlers that alternate the field between 1 and 2
Alternating ==
    /\ NumHandlers >= 2
    /\ \A k \in 1..NumHandlers : webhooks[k] \in {"Set1", "Set2"}
    /\ \A k \in 1..(NumHandlers - 1) : webhooks[k] # webhooks[k + 1]
SetValue(kind) == IF kind = "Set1" THEN 1 ELSE 2

\* C3 as stated: sub-handlers that perpetually alternate a field's value make
\* MutateCreate/MutateUpdate end with ConvergenceFailure, for every initial value.
C3_AlternationFails ==
    (InMutate /\ Alternating /\ pc = "done") => err = ConvergenceFailure

\* C3 amended: with two sub-handlers of which the first sets the field to A
\* and the second to B, MutateCreate/MutateUpdate ends with success and the
\* field at B for every initial value: after one pass when the field was A or
\* B, after two passes otherwise.  ConvergenceFailure is returned only at the
\* head of pass number 100*n+1 (counted from 0), every pass before it having
\* ended with a change counter of 2.
C3_AlternationConverges ==
    InMutate =>
        /\ (Alternating /\ NumHandlers = 2 /\ pc = "done") =>
              /\ err = NoErr
              /\ obj.f = SetValue(webhooks[2])
              /\ passes = IF inObj.f \in {1, 2} THEN 1 ELSE 2
        /\ (Returned /\ err = ConvergenceFailure) =>
              /\ i = PassBound + 1
              /\ count = 2
              /\ NumHandlers >= 2

\* the field started at neither value; the loop ended with success in two passes
C3_Witness ==
    /\ InMutate /\ pc = "done"
    /\ webhooks = << "Set1", "Set2" >>
    /\ op = "CREATE"
    /\ inObj.f = 0
    /\ obj.f = 2
    /\ passes = 2
    /\ err = NoErr

\* C4 as stated: with n sub-handlers never more than 100*n passes are started,
\* and ConvergenceFailure is returned after exactly 100*n passes.
C4_PassBound ==
    (InMutate /\ NumHandlers >= 1) =>
        /\ passes <= PassBound
        /\ (Returned /\ err = ConvergenceFailure) => passes = PassBound

----------------------------------------------------------------------------
(* Properties of handleAdmission and the handler adapters (checked under Spec) *)

Answered == pc = "done" /\ caller = "adapter"
\* the request was turned away before the envelope was decoded, or by its decoding
TransportError ==
    \/ req.body # "ok"
    \/ ContentTypeInvalid(req.contentType)
    \/ req.envelope = "bad"
\* the request reached admitFunc
Admitted == req.present /\ ~TransportError /\ req.envelope = "ok"
ObjectDecodeError == DecodeError(req.object, req.oldObject)

\* C5 as stated: on every outcome, error paths included, the reply carries a
\* response whose uid is the uid of the request (stated here for the requests
\* whose body could be read).
C5_UidOnEveryPath ==
    (Answered /\ req.body = "ok") => (http.kind = "review" /\ http.response.uid = req.uid)

\* C5 amended: whenever handleAdmission answers with an admission review (every
\* path past the decoding of the envelope: object decode failure, handler
\* denial, patch failure, allow) the uid of the response is the uid of the
\* request; the replies to a missing or unreadable body, a wrong content type
\* and an envelope decode failure are plain-text errors with no response and
\* no uid.
C5_UidOnReview ==
    Answered =>
        IF TransportError
        THEN http.kind = "text" /\ http.response = NoResp
        ELSE /\ http.kind = "review"
             /\ http.response.present
             /\ http.response.uid = req.uid
             /\ req.uid \in Uids

\* an object decode failure answered with the uid of the request
C5_Witness ==
    /\ Answered
    /\ ObjectDecodeError = DecodeObjectErr
    /\ req.uid = 2
    /\ http.response.uid = 2
    /\ http.response.message = DecodeObjectErr

\* C6 as stated: a request whose Content-Type is not exactly application/json
\* is answered with 415, nothing is decoded and no handler method is invoked
\* (stated here for the requests that have a body).
C6_WrongContentType415 ==
    (Answered /\ req.body # "nil" /\ req.contentType # "application/json") =>
        /\ http.status = StatusUnsupportedMediaType
        /\ ~decoded.envelope /\ ~decoded.object
        /\ calls = 0

\* C6 amended: a request whose Content-Type is not exactly application/json
\* and whose body is there and can be read is answered with 415 (without a
\* body the answer is 400, with an unreadable body 500, whatever the content
\* type); for every request with such a content type nothing is decoded and
\* no handler method is invoked.
C6_WrongContentType415IfRead ==
    (Answered /\ req.contentType # "application/json") =>
        /\ http.kind = "text"
        /\ http.status = CASE req.body = "nil" -> StatusBadRequest
                           [] req.body = "unreadable" -> StatusInternalServerError
                           [] OTHER -> StatusUnsupportedMediaType
        /\ ~decoded.envelope /\ ~decoded.object
        /\ calls = 0 /\ passCalls = << >>

\* a well-formed review sent without a content type is turned away with 415
C6_Witness ==
    /\ Answered
    /\ req.body = "ok" /\ req.contentType = "" /\ req.envelope = "ok"
    /\ req.object = ObjectRaw(TargetKind, 1)
    /\ http.status = StatusUnsupportedMediaType

\* C7 as stated: an envelope decode failure and a failure to decode or
\* type-assert the object or old object both give HTTP status 400.
C7_DecodeFailures400 ==
    Answered =>
        /\ (req.body = "ok" /\ ~ContentTypeInvalid(req.contentType) /\ req.envelope = "bad")
              => http.status = StatusBadRequest
        /\ (Admitted /\ ObjectDecodeError # NoErr) => http.status = StatusBadRequest

\* C7 amended: an envelope decode failure gives HTTP status 400 (plain text);
\* a failure to decode or type-assert the object or old object gives HTTP
\* status 200 with a review whose response has allowed=false, status code 400,
\* reason "Bad Request" and the decode error as message, and no handler method
\* is invoked.
C7_DecodeFailuresDenied400 ==
    Answered =>
        /\ (req.body = "ok" /\ ~ContentTypeInvalid(req.contentType) /\ req.envelope = "bad")
              => (http.status = StatusBadRequest /\ http.kind = "text")
        /\ (Admitted /\ (\/ req.object \in {UndecodableRaw, ObjectRaw(OtherKind, 0)}
                         \/ req.oldObject \in {UndecodableRaw, ObjectRaw(OtherKind, 0)})) =>
              /\ http.status = StatusOK /\ http.kind = "review"
              /\ ~http.response.allowed
              /\ http.response.hasResult
              /\ http.response.code = StatusBadRequest
              /\ http.response.reason = "Bad Request"
              /\ http.response.message =
                    (IF req.object = UndecodableRaw THEN DecodeObjectErr
                     ELSE IF req.object = ObjectRaw(OtherKind, 0) THEN ConvertObjectErr
                     ELSE IF req.oldObject = UndecodableRaw THEN DecodeOldObjectErr
                     ELSE ConvertOldObjectErr)
              /\ calls = 0

\* an old object of another type, answered 200 with status code 400 inside
C7_Witness ==
    /\ Answered
    /\ req.operation = "UPDATE"
    /\ req.object = ObjectRaw(TargetKind, 1)
    /\ req.oldObject = ObjectRaw(OtherKind, 0)
    /\ http.status = StatusOK
    /\ http.response.code = StatusBadRequest
    /\ http.response.message = ConvertOldObjectErr

\* the errors the configured handler can return
HandlerErrors == { HandlerErr(k) : k \in 1..NumHandlers } \cup {ConvergenceFailure}

\* C8: when a handler method returns an error (ConvergenceFailure included)
\* the request is answered with HTTP 200 and a review whose response has
\* allowed=false, status code 403, the error's message verbatim and no patch;
\* the task does not fail, so the server goes on serving.
C8_HandlerErrorIsDenial ==
    /\ err # NoErr => (err \in HandlerErrors /\ pc # "panic")
    /\ (Answered /\ err # NoErr) =>
          /\ http.status = StatusOK /\ http.kind = "review"
          /\ ~http.response.allowed
          /\ http.response.hasResult
          /\ http.response.code = StatusForbidden
          /\ http.response.reason = "Forbidden"
          /\ http.response.message = err
          /\ http.response.patch = NoPatch /\ http.response.patchType = ""
          /\ ENABLED Reset
    /\ (Answered /\ ~multi /\ Admitted /\ ObjectDecodeError = NoErr
          /\ MethodFor(adapter, op) # ""
          /\ webhooks[1] \in {"Deny", "Fail"}) => err = HandlerErr(1)

\* the composite mutation loop gave up and the request was denied with 403
C8_Witness ==
    /\ Answered
    /\ multi /\ adapter = "mutating"
    /\ err = ConvergenceFailure
    /\ http.status = StatusOK
    /\ http.response.code = StatusForbidden
    /\ http.response.message = ConvergenceFailure

\* the handler returned no error and the patch could not be computed
PatchFailure ==
    /\ adapter = "mutating" /\ Admitted /\ ObjectDecodeError = NoErr
    /\ err = NoErr
    /\ req.object = EmptyRaw

C10_WellFormedResponse ==
    resp.present =>
        /\ \/ resp.allowed /\ ~resp.hasResult /\ resp.code = 0
           \/ /\ ~resp.allowed /\ resp.hasResult
              /\ resp.code \in {StatusBadRequest, StatusForbidden, StatusInternalServerError}
              /\ resp.reason = StatusText(resp.code) /\ resp.reason # ""
              /\ resp.message # NoErr /\ resp.message.text # ""
        /\ resp.patch # NoPatch => resp.allowed
        /\ resp.patch # NoPatch <=> resp.patchType = "JSONPatch"
        /\ resp.patch # NoPatch => Len(resp.patch.ops) > 0
        /\ resp.patchType \in {"", "JSONPatch"}

\* a mutation was answered with a patch of type JSONPatch
C10_Witness ==
    /\ pc = "respond"
    /\ adapter = "mutating"
    /\ resp.allowed
    /\ resp.patchType = "JSONPatch"
    /\ Len(resp.patch.ops) = 1
    /\ obj # inObj

----------------------------------------------------------------------------
(* Properties of the patch a mutating adapter returns (checked under Spec)  *)

\* a Create or Update request with an object of type T reached the handler of
\* a mutating adapter, and the handler returned without an error
Mutated ==
    /\ adapter = "mutating" /\ Admitted /\ ObjectDecodeError = NoErr
    /\ req.operation \in {"CREATE", "UPDATE"}
    /\ req.object.json = "object"
    /\ err = NoErr

\* C11 as stated: a Create or Update request to a mutating adapter whose
\* handler(s) leave the decoded object as it was decoded is answered with a
\* bare allow: no patch and no patch type.
C11_NoMutationNoPatch ==
    (Answered /\ Mutated /\ obj = inObj) =>
        /\ http.kind = "review"
        /\ http.response.allowed
        /\ http.response.patch = NoPatch
        /\ http.response.patchType = ""

\* C12: whenever a mutating adapter answers with a patch, that patch applied
\* to the object bytes of the request gives the re-encoding of the object as
\* the handler left it, whether the mutation added, changed or removed a member.
C12_PatchRoundTrip ==
    (resp.present /\ resp.patch # NoPatch) =>
        /\ adapter = "mutating" /\ err = NoErr
        /\ req.object.json = "object"
        /\ ~JsonEncodePanics(obj)
        /\ ApplyPatch(req.object, resp.patch.ops) = JsonEncode(obj)

\* the handler removed the member; the patch removes it and the unknown member
C12_Witness ==
    /\ Answered /\ Mutated
    /\ req.object = WithUnknownField(ObjectRaw(TargetKind, 1))
    /\ obj.f = 0
    /\ Len(http.response.patch.ops) = 2
    /\ http.response.patch.ops[1].op = "remove"
    /\ ApplyPatch(req.object, http.response.patch.ops) = ObjectRaw(TargetKind, 0)

----------------------------------------------------------------------------
(* Properties of the registration (checked under SpecRegister)              *)

\* a Register* call has been made and did not panic
Registered == regArgs.kind # "none"
\* the paths the last Register* call has registered, in order
AddedPaths ==
    LET ByLastCall(r) == r.handler.call = registered
        added == SelectSeq(routes, ByLastCall)
    IN [ k \in DOMAIN added |-> added[k].path ]
SuffixesOf(kind) ==
    CASE kind = "validating" -> << ValidateSuffix >>
      [] kind = "mutating" -> << MutateSuffix >>
      [] kind = "joint" -> << ValidateSuffix, MutateSuffix >>
      [] OTHER -> << >>
\* "/<group>/<version>/<kind>" is written out for the identities of GvkLists
WrittenPrefix(gvk) ==
    IF gvk = AppsV1Deployment
    THEN << "/", "a", "p", "p", "s", "/", "v", "1", "/", "d", "e", "p" >>
    ELSE << "/", "c", "o", "r", "e", "/", "v", "1", "/",
            "c", "o", "n", "f", "i", "g", "m", "a", "p" >>
WrittenSuffix(suffix) ==
    IF suffix = ValidateSuffix
    THEN << "/", "v", "a", "l", "i", "d", "a", "t", "e" >>
    ELSE << "/", "m", "u", "t", "a", "t", "e" >>
WrittenGeneric == << "/", "g", "e", "n", "e", "r", "i", "c" >>
RECURSIVE Flatten(_)
Flatten(ss) == IF ss = << >> THEN << >> ELSE Head(ss) \o Flatten(Tail(ss))
\* the paths a successful call is to register: for each of its suffixes, one
\* per identity (or the generic one)
WrittenPaths(ra) ==
    LET sfx == SuffixesOf(ra.kind)
    IN Flatten([ n \in DOMAIN sfx |->
          IF ra.T = "concrete"
          THEN [ k \in DOMAIN ra.scheme.gvks |->
                    WrittenPrefix(ra.scheme.gvks[k]) \o WrittenSuffix(sfx[n]) ]
          ELSE << WrittenGeneric \o WrittenSuffix(sfx[n]) >> ])

\* C13: a handler registered for a concrete type with identity (group,
\* version, kind) is registered at /<group lower-cased, "core" when empty>/
\* <version lower-cased>/<kind lower-cased>/<validate|mutate>; a handler for an
\* interface type or *unstructured.Unstructured is registered at
\* /generic/validate or /generic/mutate, without a scheme.
C13_PathOfIdentity ==
    (Registered /\ regErr = "") =>
        /\ AddedPaths = WrittenPaths(regArgs)
        /\ regArgs.T \in {"interface", "unstructured"} => ~regArgs.scheme.present
        /\ regArgs.T # "struct"

\* empty group, v1, ConfigMap, mutate: served at /core/v1/configmap/mutate
C13_Witness ==
    /\ regArgs.kind = "mutating" /\ regArgs.T = "concrete"
    /\ regArgs.scheme.gvks = << CoreV1ConfigMap >>
    /\ regErr = ""
    /\ Lookup(routes, << "/", "c", "o", "r", "e", "/", "v", "1", "/",
                         "c", "o", "n", "f", "i", "g", "m", "a", "p", "/",
                         "m", "u", "t", "a", "t", "e" >>)
          = [type |-> "mutation", call |-> registered]

\* C14 as stated: after any sequence of Register* calls there is at most one
\* handler registered per path (stated here for the generic paths): a second
\* generic validating or mutating registration does not add a handler.
C14_OneHandlerPerPath ==
    \A k, l \in DOMAIN routes :
        (/\ routes[k].path = routes[l].path
         /\ routes[k].path \in {GenericPath(ValidateSuffix), GenericPath(MutateSuffix)})
            => k = l

\* the scheme lookup of the last call failed, or there was no scheme
LookupFails(ra) ==
    \/ ~ra.scheme.present
    \/ ra.scheme.gvks = << >>
    \/ ra.scheme.unversioned

\* C15 as stated: a registration for a concrete type succeeds only if the
\* lookup resolves the type to exactly one identity that is not unversioned;
\* otherwise it returns an error and registers no path.
C15_ExactlyOneIdentity ==
    (Registered /\ regArgs.T = "concrete") =>
        IF ~LookupFails(regArgs) /\ Len(regArgs.scheme.gvks) = 1
        THEN TRUE
        ELSE regErr \notin {"", Panicked} /\ AddedPaths = << >>

\* C15 amended: a registration for a concrete type returns an error and
\* registers no path if the scheme is missing, the lookup fails (the scheme
\* knows no identity of the type) or the type is unversioned; otherwise it
\* calls router.Handle once per identity the lookup yields, one or more, in
\* order, and returns nil (unless router.Handle panics on a path that is
\* registered already, which ends the call).
C15_AtLeastOneIdentity ==
    (Registered /\ regArgs.T = "concrete") =>
        IF LookupFails(regArgs)
        THEN /\ regErr = (IF ~regArgs.scheme.present THEN MissingSchemeErr
                          ELSE IF regArgs.scheme.gvks = << >> THEN FetchSchemeErr
                          ELSE UnversionedErr)
             /\ AddedPaths = << >>
        ELSE /\ regErr \in {"", Panicked}
             /\ regErr = "" => /\ AddedPaths = WrittenPaths(regArgs)
                               /\ Len(AddedPaths) =
                                     Len(regArgs.scheme.gvks) * Len(SuffixesOf(regArgs.kind))
             /\ regErr = Panicked =>
                   /\ router = "ServeMux"
                   /\ Len(AddedPaths) < Len(WrittenPaths(regArgs))
                   /\ AddedPaths = SubSeq(WrittenPaths(regArgs), 1, Len(AddedPaths))
                   /\ HasPath(routes, WrittenPaths(regArgs)[Len(AddedPaths) + 1])

\* a type with two identities was registered at two paths and the call returned nil
C15_Witness ==
    /\ regArgs.kind = "validating" /\ regArgs.T = "concrete"
    /\ regArgs.scheme.gvks = << CoreV1ConfigMap, AppsV1Deployment >>
    /\ ~regArgs.scheme.unversioned
    /\ regErr = ""
    /\ Len(AddedPaths) = 2
    /\ AddedPaths[1] # AddedPaths[2]

----------------------------------------------------------------------------
(* Properties of the server lifecycle (checked under SpecServe)             *)

\* the states of the server: Idle until the listener goroutine is started,
\* Draining from the call of server.Shutdown, Stopped once Serve has returned
State ==
    IF listener = "none" THEN "Idle"
    ELSE IF serve = "returned" THEN "Stopped"
    ELSE IF ctxCh = "nil" THEN "Draining"
    ELSE "Serving"
Rank(st) ==
    CASE st = "Idle" -> 0
      [] st = "Serving" -> 1
      [] st = "Draining" -> 2
      [] st = "Stopped" -> 3

\* C16 as stated: once Serve has started serving, no Register* call adds or
\* changes a route.
C16_RoutesFrozenOnceServing ==
    [][(State = "Serving" /\ listener = "listening") => routes' = routes]_vars

OptionsEmpty == ~options.bindAddress \/ ~options.certFile \/ ~options.keyFile

\* C17: Serve called with an empty bind address, certificate file or key file
\* returns the error of the first empty one at once: no listener is started,
\* no route is registered and nothing is retried (the server stays Idle, and
\* a server that has left Idle was given all three).
C17_StartupError ==
    /\ (serve = "returned" /\ OptionsEmpty) =>
          /\ serveErr = (IF ~options.bindAddress THEN "no bind address was specified"
                         ELSE IF ~options.certFile THEN "no TLS certificate file was specified"
                         ELSE "no TLS key file was specified")
          /\ State = "Idle"
          /\ listener = "none" /\ listenErr = ""
          /\ routes = << >>
          /\ conns = 0
    /\ (serve # "idle" /\ OptionsEmpty) => serve = "returned"
    /\ State # "Idle" => ~OptionsEmpty

\* Serve was given an address and a certificate but no key, and returned
C17_Witness ==
    /\ serve = "returned"
    /\ options = [bindAddress |-> TRUE, certFile |-> TRUE, keyFile |-> FALSE]
    /\ serveErr = NoKeyFileErr
    /\ listener = "none"

\* C18 as stated: after the cancellation signal the server accepts no new
\* connection, waits at most the grace period, and Serve returns only when no
\* connection is open any more; the states are traversed in the order Idle,
\* Serving, Draining, Stopped.
C18_DrainThenStop ==
    [][/\ Rank(State') >= Rank(State)
       /\ State \in {"Draining", "Stopped"} => conns' <= conns
       /\ elapsed' <= GracePeriod
       /\ (State' = "Stopped" /\ ctxCh' = "nil") => conns' = 0]_vars

\* C19 as stated: Serve returns nil exactly when the listener ended with
\* ErrServerClosed, and any other listener error is returned unchanged.
C19_NilIffServerClosed ==
    State = "Stopped" =>
        /\ serveErr = "nil" <=> listenErr = ErrServerClosed
        /\ listenErr = ListenError => serveErr = ListenError

----------------------------------------------------------------------------
(* Concurrent requests (checked under SpecConc)                             *)

\* every request in flight: the running goroutine first
Tasks == << TaskLocal >> \o others

\* what the handler served makes of an object whose field is f, and whether
\* it ever returns
FinalField(f) ==
    LET last == webhooks[Len(webhooks)]
    IN IF last = "Set1" THEN 1 ELSE IF last = "Set2" THEN 2 ELSE f
NeverReturns(f) == webhooks[1] = "Block" /\ f = 1

\* h is the reply request r gets when it is the only request
ReplyOf(r, h) ==
    IF r.contentType # "application/json"
    THEN h = HttpError(StatusUnsupportedMediaType)
    ELSE /\ ~NeverReturns(r.object.f)
         /\ h.status = StatusOK
         /\ h.kind = "review"
         /\ h.response.allowed
         /\ h.response.uid = r.uid
         /\ LET final == ObjectRaw(TargetKind, FinalField(r.object.f))
            IN IF final = r.object
               THEN h.response.patch = NoPatch
               ELSE /\ h.response.patchType = "JSONPatch"
                    /\ ApplyPatch(r.object, h.response.patch.ops) = final

\* C20: requests are handled independently. Whatever the interleaving of the
\* requests in flight, a request that is answered gets the reply it gets when
\* it is alone, a request is stuck only inside its own handler's call that
\* does not return, and the goroutine running can always take its next step
\* (read a request, or go on with the one it has), also while another
\* request's handler or composite loop is stuck.
C20_RequestsIndependent ==
    /\ \A k \in DOMAIN Tasks :
          LET t == Tasks[k]
          IN /\ t.pc # "panic"
             /\ t.pc = "done" => ReplyOf(t.req, t.http)
             /\ t.pc = "hang" => /\ t.req.contentType = "application/json"
                                 /\ NeverReturns(t.req.object.f)
    /\ pc = "idle" => ENABLED HandleConcurrent
    /\ pc \notin {"idle", "done", "hang"} => ENABLED TaskStep

\* one request is stuck in its handler (single or inside the composite loop)
\* and another, with another uid, has been answered with a patch
C20_Witness ==
    /\ multi
    /\ pc = "done"
    /\ http.kind = "review"
    /\ http.response.patch # NoPatch
    /\ \E k \in DOMAIN others :
          /\ others[k].pc = "hang"
          /\ others[k].req.uid # req.uid

----------------------------------------------------------------------------
(* One handler method per request (checked under Spec)                      *)

Single == caller = "adapter" /\ ~multi
\* admitFunc has returned for a request whose envelope was read
AdmitReturned ==
    pc \in {"finish", "respond", "done"} /\ req.envelope = "ok" /\ http.kind # "text"
NewOf(r) == IF r.object.json = "" THEN NilObj ELSE Decode(r.object)
OldOf(r) == IF r.oldObject.json = "" THEN NilObj ELSE Decode(r.oldObject)
DecodeProblem(r) ==
    \/ r.object.json # "" /\ (r.object.json # "object" \/ r.object.kind # TargetKind)
    \/ r.oldObject.json # "" /\ (r.oldObject.json # "object" \/ r.oldObject.kind # TargetKind)

\* C21: a non-composite adapter invokes at most one handler method per
\* request and never again: on Create the Create method with the new object,
\* on Update the Update method with (old, new), on Delete ValidateDelete with
\* the old object and nothing on a mutating adapter, and nothing at all when
\* the object or the old object cannot be decoded or is not a T.
C21_OneMethodPerRequest ==
    Single =>
        /\ calls <= 1
        /\ calls = Cardinality(args)
        /\ AdmitReturned =>
              IF DecodeProblem(req) THEN calls = 0
              ELSE CASE req.operation = "CREATE" -> args = { << NewOf(req) >> }
                     [] req.operation = "UPDATE" -> args = { << OldOf(req), NewOf(req) >> }
                     [] req.operation = "DELETE" ->
                            IF adapter = "validating" THEN args = { << OldOf(req) >> }
                            ELSE calls = 0
                     [] OTHER -> calls = 0

\* a Delete with both objects in the request, answered by a validating handler
\* that saw the old one
C21_Witness ==
    /\ Single
    /\ adapter = "validating"
    /\ pc = "done"
    /\ req.operation = "DELETE"
    /\ req.object.json = "object"
    /\ req.oldObject.json = "object"
    /\ OldOf(req) # NewOf(req)
    /\ calls = 1

----------------------------------------------------------------------------
(* The passes of the composite mutation loop (checked under SpecMulti)      *)

AllInOrder == [k \in 1..Len(webhooks) |-> k]

\* C22: every pass starts with a snapshot of the object and a counter of 0;
\* after each sub-handler that returned, the counter goes up by one exactly
\* when the object differs from that snapshot; once the counter exceeds 1 no
\* further sub-handler of the pass is invoked and the loop goes to the head
\* of the next pass; success is returned only from the end of a pass in which
\* all sub-handlers were invoked in list order and the counter is 0 or 1.
C22_PassCounting ==
    [][InMutate' =>
        /\ (pc = "mpass" /\ pc' \in {"mloop", "mend"}) =>
               savedObj' = obj /\ count' = 0 /\ passCalls' = << >>
        /\ (pc = "mloop" /\ pc' # "ret") =>
               /\ passCalls' = Append(passCalls, Len(passCalls) + 1)
               /\ savedObj' = savedObj
               /\ count' = IF obj' # savedObj THEN count + 1 ELSE count
        /\ (pc = "mloop" /\ pc' = "mloop") => count' <= 1
        /\ (pc = "mloop" /\ count' > 1) => pc' = "mend"
        /\ (pc = "mend" /\ count > 1) => pc' = "mpass" /\ i' = i + 1
        /\ (pc # "ret" /\ pc' = "ret" /\ err' = NoErr) =>
               pc = "mend" /\ count \in {0, 1} /\ passCalls = AllInOrder
    ]_vars

\* success after a pass that was cut short and a later pass that ran through
C22_Witness ==
    /\ InMutate
    /\ pc = "ret"
    /\ err = NoErr
    /\ passes >= 2
    /\ Len(webhooks) = MaxHandlers
    /\ count = 1

----------------------------------------------------------------------------
(* Termination of the composite mutation loop (checked under SpecMultiFair) *)

InLoop == InMutate /\ pc \in {"mpass", "mloop", "mend"}

\* C23: every call of the composite's MutateCreate / MutateUpdate returns,
\* whatever the sub-handlers (none, one or several; changing the object or
\* not; failing or not), and it returns nil, the error of a sub-handler or
\* the error "potential endless mutation loop detected".
C23_Terminates ==
    InLoop ~> (/\ InMutate
               /\ pc = "ret"
               /\ \/ err = NoErr
                  \/ err = ConvergenceFailure
                  \/ \E k \in 1..Len(webhooks) : err = HandlerErr(k))

\* the loop gave up: sub-handlers that change the object on every invocation
C23_Witness ==
    /\ InMutate
    /\ pc = "ret"
    /\ err = ConvergenceFailure
    /\ Len(webhooks) = MaxHandlers
    /\ passes > PassFactor * Len(webhooks)

----------------------------------------------------------------------------
(* A composite of one sub-handler (checked under SpecMulti)                 *)

OneHandler == InMutate /\ Len(webhooks) = 1

\* C24: a composite mutating webhook with exactly one sub-handler invokes it
\* exactly once per MutateCreate / MutateUpdate call and returns what it
\* returned, with the object as that one invocation left it; it never returns
\* the convergence error, also when the sub-handler changes the object on
\* every invocation.
C24_SingleSubHandlerOnce ==
    OneHandler =>
        /\ calls <= 1
        /\ passes <= 1
        /\ err # ConvergenceFailure
        /\ Returned => /\ calls = 1
                       /\ err = MutateResult(webhooks[1], 1)
                       /\ obj = MutateEffect(webhooks[1], inObj)

\* the one sub-handler changes the object whenever it is invoked
C24_Witness ==
    /\ OneHandler
    /\ webhooks[1] = "Inc"
    /\ pc = "ret"
    /\ err = NoErr
    /\ obj # inObj

----------------------------------------------------------------------------
(* Errors of sub-handlers in the mutation loop (checked under SpecMulti)    *)

Last(q) == q[Len(q)]

\* C25: in the composite's MutateCreate / MutateUpdate the first error of a
\* sub-handler ends the whole loop at once: the invocation that failed is the
\* last one, the call returns that very error, and until it has returned no
\* sub-handler is invoked and no pass is started.
C25_FirstErrorEndsLoop ==
    [][InMutate' =>
        /\ (pc = "mloop" /\ webhooks[j] = "Fail") =>
               /\ pc' = "ret"
               /\ err' = HandlerErr(j)
               /\ passCalls' = Append(passCalls, j)
               /\ \A k \in 1..Len(passCalls) : webhooks[passCalls[k]] # "Fail"
        /\ (pc = "ret" /\ pc' # "idle") =>
               /\ pc' = "done"
               /\ err' = err
               /\ calls' = calls
               /\ passes' = passes
               /\ passCalls' = passCalls
               /\ obj' = obj
    ]_vars

\* the first pass was cut short before the failing sub-handler was reached;
\* the second pass ends with its error
C25_Witness ==
    /\ InMutate
    /\ pc = "done"
    /\ passes = 2
    /\ err = HandlerErr(3)
    /\ Last(passCalls) = 3

----------------------------------------------------------------------------
(* The admission request in the handler's context (checked under Spec)      *)

\* a handler method has been invoked for the request at hand
Invoked == caller = "adapter" /\ calls >= 1

\* C26: inside every handler method invoked through handleAdmission,
\* AdmissionRequestFromContext(ctx) returns the request being processed and
\* no error; an error is returned only for a context without a request.
C26_RequestInContext ==
    /\ Invoked => AdmissionRequestFromContext(AdmitContext(req)) = [request |-> req, err |-> ""]
    /\ req.present =>
          AdmissionRequestFromContext(contextWithAdmissionRequest(Background, req)).err = ""

----------------------------------------------------------------------------
(* Every review is answered (checked under Spec)                            *)

\* the body was read, is JSON by content type and decodes as a review
ReviewRead ==
    /\ req.present
    /\ req.body = "ok"
    /\ req.contentType = "application/json"
    /\ req.envelope # "bad"

\* C27: a request with content type application/json whose body decodes as
\* an admission review, with or without a request member, never makes
\* handleAdmission panic, and once handleAdmission is over exactly one reply
\* has been written.
C27_AlwaysAnswered ==
    ReviewRead =>
        /\ pc # "panic"
        /\ pc = "done" => http # NoReply

----------------------------------------------------------------------------
(* The listener goroutine at the end of Serve (checked under SpecServe)     *)

\* C28: whenever Serve has returned, the goroutine that runs
\* server.ListenAndServeTLS was never started or has handed its result over
\* the error channel and ended; it is never left sending on the channel (or
\* on its way there) with nobody to receive.
C28_GoroutineEnded ==
    serve = "returned" => listener \in {"none", "ended"}

----------------------------------------------------------------------------
(* Delete on a mutating adapter (checked under Spec)                        *)

\* a Delete review as the API server sends it: no object, the old object of
\* kind T, handled to the end by a mutating adapter
DeleteMutated ==
    /\ adapter = "mutating"
    /\ ReviewRead
    /\ req.envelope = "ok"
    /\ req.operation = "DELETE"
    /\ req.object = EmptyRaw
    /\ req.oldObject.json = "object"
    /\ req.oldObject.kind = TargetKind
    /\ pc = "done"

\* C29: a Delete request (no object payload) delivered to a mutating adapter
\* invokes no handler method and is answered with allowed = true and no
\* patch.
C29_DeleteAllowedNoPatch ==
    DeleteMutated =>
        /\ calls = 0
        /\ http.kind = "review"
        /\ http.response.allowed
        /\ http.response.patch = NoPatch

----------------------------------------------------------------------------
(* A failed registration leaves the router alone (checked under             *)
(* SpecRegister)                                                            *)

ReturnedError(e) == e # "" /\ e # Panicked

\* C30: a Register*WithRouter call (validating, mutating or joint) that
\* returns an error has made no router.Handle call: the router's table is
\* what it was before the call; a joint registration that fails has not
\* registered its validating route either.
C30_ErrorLeavesRouterUnchanged ==
    [][(registered' = registered + 1 /\ ReturnedError(regErr')) => routes' = routes]_vars

\* a joint registration failed after an earlier registration had succeeded
C30_Witness ==
    /\ registered = 2
    /\ regArgs.kind = "joint"
    /\ ReturnedError(regErr)
    /\ routes # << >>
====
